---- MODULE Spec2Model ----
(***************************************************************************)
(* SpatialPointReasoner.invoke_async                                       *)
(* (src/hcaptcha_challenger/tools/spatial_point_reasoning.py) as a state   *)
(* machine: the tenacity retry envelope around the body, the two           *)
(* concurrent uploads joined by asyncio.gather, the assembly of the        *)
(* request, the choice of decoding mode and the parse of the response.     *)
(***************************************************************************)
EXTENDS Integers, Sequences, FiniteSets, TLC

(***************************************************************************)
(* Python values: a value is a record [type, val], so that values of       *)
(* different Python types can be compared.                                 *)
(***************************************************************************)
PyNone == [type |-> "NoneType", val |-> "None"]

PyTrue == [type |-> "bool", val |-> "True"]

PyFalse == [type |-> "bool", val |-> "False"]

PyStr(s) == [type |-> "str", val |-> s]

PyInt(s) == [type |-> "int", val |-> s]

\* bool(v): Python truthiness of the values the model uses.
truthy(v) ==
    ~ \/ v = PyNone
      \/ v = PyFalse
      \/ v = PyStr("")
      \/ v = PyInt("0")

\* isinstance(v, str)
isinstance_str(v) == v.type = "str"

\* isinstance(v, int): bool is a subclass of int.
isinstance_int(v) == v.type \in {"int", "bool"}

(***************************************************************************)
(* Program constants.                                                      *)
(***************************************************************************)
\* stop=stop_after_attempt(3)
MaxAttemptNumber == 3

\* wait=wait_fixed(3)
WaitSeconds == 3

THINKING_PROMPT == "THINKING_PROMPT"

LegacyModel == "gemini-2.0-flash-thinking-exp-01-21"

FlashModel == "gemini-2.5-flash-preview-04-17"

ProModel == "gemini-2.5-pro-exp-03-25"

\* hcaptcha_challenger.models.THINKING_BUDGET_MODELS
THINKING_BUDGET_MODELS == {FlashModel}

(***************************************************************************)
(* Inputs of one call.                                                     *)
(***************************************************************************)
EmptyKwargs == [k \in {} |-> PyNone]

ModelKwargs == {EmptyKwargs} \cup {"model" :> m : m \in {PyNone, PyStr(LegacyModel), PyStr(FlashModel)}}

EnableKwargs == {EmptyKwargs} \cup {"enable_response_schema" :> b : b \in {PyTrue, PyFalse}}

BudgetKwargs == {EmptyKwargs} \cup {"thinking_budget" :> b : b \in {PyInt("1024"), PyStr("high")}}

KwargsValues == {m @@ e @@ b : m \in ModelKwargs, e \in EnableKwargs, b \in BudgetKwargs}

AuxValues == {PyNone, PyStr(""), PyStr("pick the odd one"), PyInt("7")}

FlagValues == {PyNone, PyTrue, PyFalse}

ChallengePath == "challenge.png"

GridPath == "grid.png"

CallValues ==
    [challenge_screenshot : {ChallengePath},
     grid_divisions : {GridPath},
     auxiliary_information : AuxValues,
     constraint_response_schema : FlagValues,
     kwargs : KwargsValues]

NoCall ==
    [challenge_screenshot |-> "", grid_divisions |-> "",
     auxiliary_information |-> PyNone, constraint_response_schema |-> PyNone,
     kwargs |-> EmptyKwargs]

(***************************************************************************)
(* What the provider can answer.                                           *)
(***************************************************************************)
PayloadA == [challenge_prompt |-> "x", points |-> <<[x |-> 12, y |-> 34]>>]

PayloadB == [challenge_prompt |-> "y", points |-> <<[x |-> 5, y |-> 6]>>]

PayloadEmpty == [challenge_prompt |-> "x", points |-> <<>>]

BadShape == [answer |-> "x"]

Prose == [kind |-> "prose"]

JsonBlock(p) == [kind |-> "json", value |-> p]

NoParsed == [missing |-> "parsed"]

Responses ==
    {[parsed |-> PayloadA, text |-> <<JsonBlock(PayloadB)>>],
     [parsed |-> NoParsed, text |-> <<Prose, JsonBlock(PayloadB), Prose, JsonBlock(PayloadA)>>],
     [parsed |-> NoParsed, text |-> <<Prose>>],
     [parsed |-> NoParsed, text |-> <<Prose, JsonBlock(BadShape)>>],
     [parsed |-> NoParsed, text |-> <<JsonBlock(PayloadEmpty), Prose>>]}

NoResponse == [parsed |-> NoParsed, text |-> <<>>]

(***************************************************************************)
(* State.                                                                  *)
(*   self           the solver object: _api_key, _model,                   *)
(*                  _constraint_response_schema, _response                 *)
(*   pc             where the invocation is: idle, uploading (awaiting     *)
(*                  gather), inferring (awaiting generate_content),        *)
(*                  sleeping (tenacity's wait), returned, raised           *)
(*   call           the arguments of the invocation                        *)
(*   attempt_number retry_state.attempt_number                             *)
(*   up             the two upload tasks of the current attempt            *)
(*   done_order     the order in which they completed                      *)
(*   request        the last request handed to generate_content            *)
(*   log            the before_sleep log events of the invocation          *)
(*   slept          seconds waited between attempts                        *)
(*   outcome        what the caller gets                                   *)
(*   journal        history: one record per attempt of the invocation      *)
(*   self0          history: the solver object when the invocation began   *)
(*   peer           a second invocation running on the same solver object: *)
(*                  its pc, call, attempt_number, request, the response    *)
(*                  its own last inference call returned, and its outcome  *)
(***************************************************************************)
VARIABLES self, pc, call, attempt_number, up, done_order, request,
          log, slept, outcome, journal, self0, peer

vars == <<self, pc, call, attempt_number, up, done_order, request,
          log, slept, outcome, journal, self0, peer>>

NoRequest == [model |-> "", contents |-> <<>>, config |-> [temperature |-> -1]]

NoOutcome == [kind |-> "none"]

NoException == [type |-> "", attempt |-> 0]

Exception(t, n) == [type |-> t, attempt |-> n]

NewAttempt ==
    [uploads_started |-> 0, upload_failed |-> FALSE, inference_calls |-> 0,
     response |-> NoResponse, exception |-> NoException]

(***************************************************************************)
(* The retry envelope (tenacity), lines 61-67.                             *)
(***************************************************************************)
stop_after_attempt_4(n) == n >= MaxAttemptNumber + 1

stop_after_attempt_2(n) == n >= MaxAttemptNumber - 1

\* stop=stop_after_attempt(3)
stop_after_attempt(n) == n >= MaxAttemptNumber

\* wait=wait_fixed(3)
wait_fixed == WaitSeconds

before_sleep_next(n, e) == [attempt_number |-> n + 1, exception |-> e]

\* before_sleep: the log event, with retry_state.attempt_number and
\* retry_state.outcome.exception()
before_sleep(n, e) == [attempt_number |-> n, exception |-> e]

\* No reraise=True: when the envelope stops, tenacity raises RetryError
\* carrying the last attempt.
retry_error(e) == [kind |-> "error", value |-> [type |-> "RetryError", last_attempt |-> e]]

\* The attempt numbered n raised e.
AttemptRaised(e, n, lg, sl) ==
    IF stop_after_attempt(n)
    THEN /\ pc' = "raised"
         /\ outcome' = retry_error(e)
         /\ log' = lg
         /\ slept' = sl
    ELSE /\ pc' = "sleeping"
         /\ outcome' = NoOutcome
         /\ log' = Append(lg, before_sleep(n, e))
         /\ slept' = sl + wait_fixed

(***************************************************************************)
(* The body of invoke_async up to its first suspension, lines 77-95.       *)
(***************************************************************************)
\* kwargs.pop(key, default)
kwargs_pop(kw, key, default) == IF key \in DOMAIN kw THEN kw[key] ELSE default

\* kwargs.get(key)
kwargs_get(kw, key) == IF key \in DOMAIN kw THEN kw[key] ELSE PyNone

model_to_use_or_default(c, s) ==
    LET m == kwargs_pop(c.kwargs, "model", s._model)
    IN  IF m = PyNone THEN PyStr(ProModel) ELSE m

\* line 77
model_to_use(c, s) == kwargs_pop(c.kwargs, "model", s._model)

effective_constraint_call_first(c, s) ==
    LET enable_response_schema == kwargs_get(c.kwargs, "enable_response_schema")
    IN  IF c.constraint_response_schema # PyNone
        THEN c.constraint_response_schema
        ELSE IF enable_response_schema # PyNone
             THEN enable_response_schema
             ELSE s._constraint_response_schema

\* lines 81-86: the effective schema-constraint flag
effective_constraint(c, s) ==
    LET given == IF c.constraint_response_schema = PyNone
                 THEN s._constraint_response_schema
                 ELSE c.constraint_response_schema
        enable_response_schema == kwargs_get(c.kwargs, "enable_response_schema")
    IN  IF enable_response_schema # PyNone THEN enable_response_schema ELSE given

Pending == "pending"

BeginAttempt_cached(c, n, jr, lg, sl) ==
    IF model_to_use(c, self) = PyNone
    THEN LET e == Exception("ValueError", n)
         IN  /\ AttemptRaised(e, n, lg, sl)
             /\ journal' = Append(jr, [NewAttempt EXCEPT !.exception = e])
             /\ UNCHANGED <<up, done_order>>
    ELSE /\ pc' = "uploading"
         /\ up' = IF n > 1 /\ up = <<"ok", "ok">> THEN up ELSE <<Pending, Pending>>
         /\ done_order' = IF n > 1 /\ up = <<"ok", "ok">> THEN done_order ELSE <<>>
         /\ journal' = Append(jr, [NewAttempt EXCEPT !.uploads_started =
                                       IF n > 1 /\ up = <<"ok", "ok">> THEN 0 ELSE 2])
         /\ outcome' = NoOutcome
         /\ log' = lg
         /\ slept' = sl

\* Attempt n of call c begins; jr is the journal of the earlier attempts.
BeginAttempt(c, n, jr, lg, sl) ==
    IF model_to_use(c, self) = PyNone
    THEN LET e == Exception("ValueError", n)
         IN  /\ AttemptRaised(e, n, lg, sl)
             /\ journal' = Append(jr, [NewAttempt EXCEPT !.exception = e])
             /\ UNCHANGED <<up, done_order>>
    ELSE /\ pc' = "uploading"
         /\ up' = <<Pending, Pending>>
         /\ done_order' = <<>>
         /\ journal' = Append(jr, [NewAttempt EXCEPT !.uploads_started = 2])
         /\ outcome' = NoOutcome
         /\ log' = lg
         /\ slept' = sl

\* The caller calls invoke_async(...).
Invoke(c) ==
    /\ pc = "idle"
    /\ call' = c
    /\ attempt_number' = 1
    /\ self0' = self
    /\ request' = NoRequest
    /\ BeginAttempt(c, 1, <<>>, <<>>, 0)
    /\ UNCHANGED <<self, peer>>

\* tenacity's sleep ends and the function is called again.
Retry ==
    /\ pc = "sleeping"
    /\ attempt_number' = attempt_number + 1
    /\ BeginAttempt(call, attempt_number + 1, journal, log, slept)
    /\ UNCHANGED <<self, call, request, self0, peer>>

(***************************************************************************)
(* The two uploads and asyncio.gather, lines 92-95.                        *)
(***************************************************************************)
\* client.aio.files.upload(file=path): the handle the file store returns.
File(path) == [uri |-> path, mime_type |-> "image/png"]

\* The path upload task i was given (task 1: line 93, task 2: line 94).
upload_arg(c, i) == IF i = 1 THEN c.challenge_screenshot ELSE c.grid_divisions

JournalNow(f, v) == [journal EXCEPT ![Len(journal)][f] = v]

Now == journal[Len(journal)]

\* Upload task i of the current attempt completes, with a handle or an error.
UploadCompletes(i, ok) ==
    /\ pc = "uploading"
    /\ up[i] = Pending
    /\ up' = [up EXCEPT ![i] = IF ok THEN "ok" ELSE "failed"]
    /\ done_order' = Append(done_order, i)
    /\ journal' = IF ok THEN journal ELSE JournalNow("upload_failed", TRUE)
    /\ UNCHANGED <<self, pc, call, attempt_number, request, log, slept,
                   outcome, self0, peer>>

gather_ready_any(u) == \E i \in 1..2 : u[i] = "ok"

\* gather returns once every awaitable has returned.
gather_ready(u) == \A i \in 1..2 : u[i] = "ok"

gather_failed_never(u) == FALSE

\* gather raises as soon as one awaitable has raised; the other keeps running.
gather_failed(u) == \E i \in 1..2 : u[i] = "failed"

gather_by_completion(results, order) == <<results[order[1]], results[order[2]]>>

\* The list gather returns: the results in the order of its arguments.
gather(results, order) == <<results[1], results[2]>>

\* await asyncio.gather(...) raises the error of the upload that failed
\* first: the attempt ends here. The other upload, when still in flight, is
\* left running; nothing awaits it and its completion changes no state.
GatherRaises ==
    /\ pc = "uploading"
    /\ gather_failed(up)
    /\ LET e == Exception("UploadError", attempt_number)
       IN  /\ AttemptRaised(e, attempt_number, log, slept)
           /\ journal' = JournalNow("exception", e)
    /\ UNCHANGED <<self, call, attempt_number, up, done_order, request, self0,
                   peer>>

(***************************************************************************)
(* The request, lines 103-131.                                             *)
(***************************************************************************)
from_uri(f) == [kind |-> "uri", file_uri |-> f.uri, mime_type |-> f.mime_type]

from_text(t) == [kind |-> "text", text |-> t]

\* lines 103-108
build_parts(files, aux) ==
    <<from_uri(files[1]), from_uri(files[2])>>
    \o (IF truthy(aux) /\ isinstance_str(aux) THEN <<from_text(aux.val)>> ELSE <<>>)

NoThinking == [include_thoughts |-> FALSE, thinking_budget |-> PyNone]

build_config_any_model(model, thinking_budget) ==
    [temperature |-> 0,
     system_instruction |-> THINKING_PROMPT,
     thinking_config |->
         IF isinstance_int(thinking_budget)
         THEN [include_thoughts |-> TRUE, thinking_budget |-> thinking_budget]
         ELSE NoThinking,
     response_mime_type |-> "",
     response_schema |-> ""]

\* lines 113-119
build_config(model, thinking_budget) ==
    [temperature |-> 0,
     system_instruction |-> THINKING_PROMPT,
     thinking_config |->
         IF model.val \in THINKING_BUDGET_MODELS /\ isinstance_int(thinking_budget)
         THEN [include_thoughts |-> TRUE, thinking_budget |-> thinking_budget]
         ELSE NoThinking,
     response_mime_type |-> "",
     response_schema |-> ""]

use_free_text_flag_only(flag, model) == ~ truthy(flag)

\* line 122: free-text mode
use_free_text(flag, model) == ~ truthy(flag) \/ model.val \in {LegacyModel}

\* lines 130-131
structured_config(cfg) ==
    [cfg EXCEPT !.response_mime_type = "application/json",
                !.response_schema = "ImageAreaSelectChallenge"]

\* lines 103-136: the arguments of generate_content
build_request(c, s, files) ==
    LET model == model_to_use(c, s)
        cfg == build_config(model, kwargs_get(c.kwargs, "thinking_budget"))
    IN  [model |-> model.val,
         contents |-> <<[role |-> "user",
                         parts |-> build_parts(files, c.auxiliary_information)]>>,
         config |-> IF use_free_text(effective_constraint(c, s), model)
                    THEN cfg
                    ELSE structured_config(cfg)]

\* gather returns and generate_content is called (no suspension between).
GatherReturns ==
    /\ pc = "uploading"
    /\ gather_ready(up)
    /\ LET files == gather([i \in 1..2 |-> File(upload_arg(call, i))], done_order)
       IN  request' = build_request(call, self, files)
    /\ pc' = "inferring"
    /\ journal' = JournalNow("inference_calls", Now.inference_calls + 1)
    /\ UNCHANGED <<self, call, attempt_number, up, done_order, log, slept,
                   outcome, self0, peer>>

(***************************************************************************)
(* The response and its parse, lines 125-139.                              *)
(***************************************************************************)
NoJson == [missing |-> "json"]

\* hcaptcha_challenger.tools.common.extract_first_json_block: the first
\* JSON block of the text, or nothing.
extract_first_json_block(text) ==
    LET blocks == SelectSeq(text, LAMBDA t : t.kind = "json")
    IN  IF blocks = <<>> THEN NoJson ELSE blocks[1].value

\* self._response.parsed.model_dump()
model_dump(parsed) == parsed

Raises(t) == [kind |-> "raise", type |-> t]

Returns(v) == [kind |-> "return", value |-> v]

ImageAreaSelectChallenge_any_points(d) ==
    IF d = NoJson
    THEN Raises("TypeError")
    ELSE IF {"challenge_prompt", "points"} \subseteq DOMAIN d
         THEN Returns([challenge_prompt |-> d.challenge_prompt, points |-> d.points])
         ELSE Raises("ValidationError")

\* ImageAreaSelectChallenge(**d): the validated model, or the error raised.
\* The model holds a challenge prompt and a non-empty sequence of points.
ImageAreaSelectChallenge(d) ==
    IF d = NoJson
    THEN Raises("TypeError")
    ELSE IF {"challenge_prompt", "points"} \subseteq DOMAIN d /\ d.points # <<>>
         THEN Returns([challenge_prompt |-> d.challenge_prompt, points |-> d.points])
         ELSE Raises("ValidationError")

parse_text_only(req, r) == ImageAreaSelectChallenge(extract_first_json_block(r.text))

\* lines 128 and 137-139: what the body does with the response r.
parse(req, r) ==
    IF req.config.response_mime_type # "application/json"
    THEN ImageAreaSelectChallenge(extract_first_json_block(r.text))
    ELSE IF r.parsed # NoParsed
         THEN ImageAreaSelectChallenge(model_dump(r.parsed))
         ELSE ImageAreaSelectChallenge(extract_first_json_block(r.text))

store_nothing(s, r) == s

\* self._response = await ...generate_content(...)
store_response(s, r) == [s EXCEPT !._response = r]

held_response_before(before, after) == before._response

\* self._response as lines 128 and 137-139 read it: what the solver holds
\* right after the assignment, with no suspension in between.
held_response(before, after) == after._response

\* generate_content returns r: the body stores it on the solver, parses what
\* the solver holds and returns or raises.
InferenceReturns(r) ==
    /\ pc = "inferring"
    /\ self' = store_response(self, r)
    /\ LET res == parse(request, held_response(self, store_response(self, r)))
           jr == JournalNow("response", r)
       IN  IF res.kind = "return"
           THEN /\ pc' = "returned"
                /\ outcome' = [kind |-> "result", value |-> res.value]
                /\ journal' = jr
                /\ UNCHANGED <<log, slept>>
           ELSE LET e == Exception(res.type, attempt_number)
                IN  /\ AttemptRaised(e, attempt_number, log, slept)
                    /\ journal' = [jr EXCEPT ![Len(jr)].exception = e]
    /\ UNCHANGED <<call, attempt_number, up, done_order, request, self0, peer>>

\* generate_content raises.
InferenceRaises ==
    /\ pc = "inferring"
    /\ LET e == Exception("APIError", attempt_number)
       IN  /\ AttemptRaised(e, attempt_number, log, slept)
           /\ journal' = JournalNow("exception", e)
    /\ UNCHANGED <<self, call, attempt_number, up, done_order, request, self0,
                   peer>>

(***************************************************************************)
(* A second invocation of invoke_async on the same solver object, running  *)
(* concurrently on the same event loop. It runs the same body; its steps   *)
(* are its suspension points: the await of gather (lines 92-95), the await *)
(* of generate_content (lines 125, 134) and tenacity's sleep. Its log is   *)
(* not recorded.                                                           *)
(***************************************************************************)
PeerIdle ==
    [pc |-> "idle", call |-> NoCall, attempt_number |-> 0, request |-> NoRequest,
     response |-> NoResponse, outcome |-> NoOutcome]

MainVars == <<pc, call, attempt_number, up, done_order, request, log, slept,
              outcome, journal, self0>>

\* The retry envelope around the peer's attempt, which raised e.
PeerAttemptRaised(p, e) ==
    IF stop_after_attempt(p.attempt_number)
    THEN [p EXCEPT !.pc = "raised", !.outcome = retry_error(e)]
    ELSE [p EXCEPT !.pc = "sleeping"]

\* Lines 77-95 for the peer: the model check, then the uploads begin.
PeerBeginAttempt(p) ==
    IF model_to_use(p.call, self) = PyNone
    THEN PeerAttemptRaised(p, Exception("ValueError", p.attempt_number))
    ELSE [p EXCEPT !.pc = "uploading"]

PeerInvoke(c) ==
    /\ peer.pc = "idle"
    /\ peer' = PeerBeginAttempt([PeerIdle EXCEPT !.call = c, !.attempt_number = 1])
    /\ UNCHANGED <<self, MainVars>>

PeerRetry ==
    /\ peer.pc = "sleeping"
    /\ peer' = PeerBeginAttempt([peer EXCEPT !.attempt_number = @ + 1])
    /\ UNCHANGED <<self, MainVars>>

\* The peer's gather returns both handles and its generate_content is called.
PeerGatherReturns ==
    /\ peer.pc = "uploading"
    /\ LET files == gather([i \in 1..2 |-> File(upload_arg(peer.call, i))], <<1, 2>>)
       IN  peer' = [peer EXCEPT !.pc = "inferring",
                                !.request = build_request(peer.call, self, files)]
    /\ UNCHANGED <<self, MainVars>>

\* One of the peer's uploads fails and its gather raises.
PeerGatherRaises ==
    /\ peer.pc = "uploading"
    /\ peer' = PeerAttemptRaised(peer, Exception("UploadError", peer.attempt_number))
    /\ UNCHANGED <<self, MainVars>>

\* The peer's generate_content returns r: stored on the shared solver and
\* parsed from there in the same step.
PeerInferenceReturns(r) ==
    /\ peer.pc = "inferring"
    /\ self' = store_response(self, r)
    /\ LET res == parse(peer.request, held_response(self, store_response(self, r)))
           p == [peer EXCEPT !.response = r]
       IN  peer' = IF res.kind = "return"
                   THEN [p EXCEPT !.pc = "returned",
                                  !.outcome = [kind |-> "result", value |-> res.value]]
                   ELSE PeerAttemptRaised(p, Exception(res.type, p.attempt_number))
    /\ UNCHANGED MainVars

PeerInferenceRaises ==
    /\ peer.pc = "inferring"
    /\ peer' = PeerAttemptRaised(peer, Exception("APIError", peer.attempt_number))
    /\ UNCHANGED <<self, MainVars>>

(***************************************************************************)
(* The specification.                                                      *)
(***************************************************************************)
\* SpatialPointReasoner(gemini_api_key, model, constraint_response_schema)
Solvers ==
    [_api_key : {"key"},
     _model : {PyNone, PyStr(ProModel)},
     _constraint_response_schema : {PyTrue, PyFalse},
     _response : {NoResponse}]

Init ==
    /\ self \in Solvers
    /\ pc = "idle"
    /\ call = NoCall
    /\ attempt_number = 0
    /\ up = <<"none", "none">>
    /\ done_order = <<>>
    /\ request = NoRequest
    /\ log = <<>>
    /\ slept = 0
    /\ outcome = NoOutcome
    /\ journal = <<>>
    /\ self0 = self
    /\ peer = PeerIdle

Next ==
    \/ \E c \in CallValues : Invoke(c)
    \/ \E i \in 1..2 : UploadCompletes(i, TRUE)
    \/ \E i \in 1..2 : UploadCompletes(i, FALSE)
    \/ GatherReturns
    \/ GatherRaises
    \/ \E r \in Responses : InferenceReturns(r)
    \/ InferenceRaises
    \/ Retry

Spec == Init /\ [][Next]_vars

(***************************************************************************)
(* Two concurrent invocations on one solver whose default model is set.    *)
(* The calls differ in what decides the decoding mode; the other           *)
(* arguments are the defaults.                                             *)
(***************************************************************************)
SharedCallValues ==
    {c \in CallValues :
         /\ c.auxiliary_information = PyStr("")
         /\ c.kwargs = EmptyKwargs
         /\ c.constraint_response_schema \in {PyTrue, PyFalse}}

InitShared == Init /\ self._model = PyStr(ProModel)

NextShared ==
    \/ \E c \in SharedCallValues : Invoke(c)
    \/ \E i \in 1..2 : UploadCompletes(i, TRUE)
    \/ \E i \in 1..2 : UploadCompletes(i, FALSE)
    \/ GatherReturns
    \/ GatherRaises
    \/ \E r \in Responses : InferenceReturns(r)
    \/ InferenceRaises
    \/ Retry
    \/ \E c \in SharedCallValues : PeerInvoke(c)
    \/ PeerGatherReturns
    \/ PeerGatherRaises
    \/ \E r \in Responses : PeerInferenceReturns(r)
    \/ PeerInferenceRaises
    \/ PeerRetry

SpecShared == InitShared /\ [][NextShared]_vars

(***************************************************************************)
(* One invocation whose uploads, inference calls and sleeps all end: the   *)
(* event loop resumes a coroutine whose awaited operation has completed,   *)
(* and every upload and inference call is taken to complete.               *)
(***************************************************************************)
LiveCallValues ==
    {c \in CallValues :
         /\ c.auxiliary_information = PyStr("")
         /\ "enable_response_schema" \notin DOMAIN c.kwargs
         /\ "thinking_budget" \notin DOMAIN c.kwargs}

Progress ==
    \/ \E i \in 1..2 : UploadCompletes(i, TRUE)
    \/ \E i \in 1..2 : UploadCompletes(i, FALSE)
    \/ GatherReturns
    \/ GatherRaises
    \/ \E r \in Responses : InferenceReturns(r)
    \/ InferenceRaises
    \/ Retry

NextLive ==
    \/ \E c \in LiveCallValues : Invoke(c)
    \/ Progress

SpecLive == Init /\ [][NextLive]_vars /\ WF_vars(Progress)

(***************************************************************************)
(* Vocabulary of the properties.                                           *)
(***************************************************************************)
Attempts == 1..Len(journal)

Failed(a) == journal[a].exception # NoException

AllFailed == Attempts # {} /\ \A a \in Attempts : Failed(a)

Ended == pc \in {"returned", "raised"}

\* Neither the call nor the stored default names a model.
NoModelAnywhere ==
    /\ pc # "idle"
    /\ self0._model = PyNone
    /\ "model" \in DOMAIN call.kwargs => call.kwargs["model"] = PyNone

TotalUploads == IF Attempts = {} THEN 0
                ELSE LET sum[a \in 0..Len(journal)] ==
                             IF a = 0 THEN 0 ELSE sum[a - 1] + journal[a].uploads_started
                     IN  sum[Len(journal)]

TotalInferenceCalls == IF Attempts = {} THEN 0
                       ELSE LET sum[a \in 0..Len(journal)] ==
                                    IF a = 0 THEN 0 ELSE sum[a - 1] + journal[a].inference_calls
                            IN  sum[Len(journal)]

(***************************************************************************)
(* C1. Retry exhaustion: while every attempt so far has failed, the        *)
(* invocation is either waiting to retry after fewer than 3 attempts or    *)
(* has raised to the caller after exactly 3; a 4th attempt never begins    *)
(* and an invocation whose attempts all failed never returns a result.     *)
(***************************************************************************)
C1_RetryExhaustion ==
    /\ Len(journal) <= 3
    /\ attempt_number <= 3
    /\ AllFailed =>
           \/ Len(journal) < 3 /\ pc = "sleeping" /\ outcome = NoOutcome
           \/ Len(journal) = 3 /\ pc = "raised" /\ outcome.kind = "error"
    /\ pc = "raised" => AllFailed /\ Len(journal) = 3

\* Three attempts failed in three different ways and the call raised.
C1_Witness ==
    /\ pc = "raised"
    /\ Len(journal) = 3
    /\ journal[1].exception.type = "UploadError"
    /\ journal[2].exception.type = "APIError"
    /\ journal[3].exception.type = "TypeError"

(***************************************************************************)
(* C2. After the last permitted attempt fails, the error the caller gets   *)
(* is the very exception that attempt raised, not wrapped in another.      *)
(***************************************************************************)
C2_UnmodifiedError ==
    pc = "raised" => outcome.value = journal[Len(journal)].exception

(***************************************************************************)
(* C3. With no model resolvable the invocation makes exactly one attempt   *)
(* and raises the configuration error at once: no retry-log event, no      *)
(* retry delay.                                                            *)
(***************************************************************************)
C3_FailFastNotRetried ==
    NoModelAnywhere =>
        /\ pc = "raised"
        /\ Len(journal) = 1
        /\ log = <<>>
        /\ slept = 0

(***************************************************************************)
(* C4. With no model resolvable the invocation never touches the           *)
(* provider: over all its attempts no upload is started and no inference   *)
(* call is issued, and it ends in an error.                                *)
(***************************************************************************)
C4_NoProviderCall ==
    NoModelAnywhere =>
        /\ TotalUploads = 0
        /\ TotalInferenceCalls = 0
        /\ request = NoRequest
        /\ up = <<"none", "none">>
        /\ pc \in {"sleeping", "raised"}
        /\ AllFailed
        /\ pc = "raised" => outcome.kind = "error"

\* The call without a model has ended, after all its attempts.
C4_Witness ==
    /\ NoModelAnywhere
    /\ pc = "raised"
    /\ Len(journal) = 3
    /\ "model" \in DOMAIN call.kwargs

(***************************************************************************)
(* C5. Retry logging: the log holds one event per failed attempt that was  *)
(* followed by a retry, numbered 1..k in order and carrying that attempt's *)
(* error; a call that returns after k failures returns the result of       *)
(* attempt k+1 with exactly k events; the third failure logs nothing.      *)
(***************************************************************************)
C5_RetryLog ==
    /\ Len(log) <= 2
    /\ \A i \in 1..Len(log) :
           /\ log[i].attempt_number = i
           /\ i \in Attempts
           /\ log[i].exception = journal[i].exception
           /\ Failed(i)
    /\ pc = "returned" =>
           /\ Len(journal) = Len(log) + 1
           /\ ~ Failed(Len(journal))
           /\ \A a \in 1..Len(log) : Failed(a)
           /\ outcome.kind = "result"
           /\ outcome.value = parse(request, journal[Len(journal)].response).value
    /\ pc = "raised" => Len(log) = 2 /\ Len(journal) = 3
    /\ pc \in {"sleeping"} => Len(log) = Len(journal)
    /\ pc \in {"uploading", "inferring"} => Len(log) = Len(journal) - 1

\* Attempts 1 and 2 failed, attempt 3 succeeded: two events, numbered 1 and 2.
C5_Witness ==
    /\ pc = "returned"
    /\ Len(journal) = 3
    /\ Len(log) = 2
    /\ log[1].attempt_number = 1
    /\ log[2].attempt_number = 2
    /\ outcome.kind = "result"

(***************************************************************************)
(* C6. Fork-join: an attempt issues its inference call only once both of   *)
(* its own uploads have completed successfully, whichever completed        *)
(* first; an attempt in which an upload failed issues no inference call    *)
(* and ends with the upload's error.                                       *)
(***************************************************************************)
C6_ForkJoin ==
    /\ pc = "inferring" => up = <<"ok", "ok">>
    /\ \A a \in Attempts :
           /\ journal[a].inference_calls <= 1
           /\ journal[a].inference_calls = 1 =>
                  /\ journal[a].uploads_started = 2
                  /\ ~ journal[a].upload_failed
                  /\ a = Len(journal) => up = <<"ok", "ok">> /\ Len(done_order) = 2
           /\ journal[a].upload_failed =>
                  /\ journal[a].inference_calls = 0
                  /\ journal[a].response = NoResponse
                  /\ a < Len(journal) \/ pc \in {"sleeping", "raised"} =>
                         journal[a].exception.type = "UploadError"

\* The second attempt issued its call after the grid image's upload finished
\* first; the first attempt was aborted by a failed upload while the other
\* upload had succeeded.
C6_Witness ==
    /\ pc = "inferring"
    /\ Len(journal) = 2
    /\ done_order = <<2, 1>>
    /\ journal[1].upload_failed
    /\ journal[1].inference_calls = 0

(***************************************************************************)
(* C7. Content ordering: the parts handed to the inference call are the    *)
(* challenge image's reference, then the grid image's reference, then the  *)
(* auxiliary text exactly when it is a non-empty string; the system        *)
(* instruction travels in the configuration and is no part.                *)
(***************************************************************************)
Parts == request.contents[1].parts

C7_ContentOrdering ==
    request # NoRequest =>
        /\ Len(request.contents) = 1
        /\ request.contents[1].role = "user"
        /\ Len(Parts) \in {2, 3}
        /\ Parts[1] = [kind |-> "uri", file_uri |-> File(call.challenge_screenshot).uri,
                       mime_type |-> "image/png"]
        /\ Parts[2] = [kind |-> "uri", file_uri |-> File(call.grid_divisions).uri,
                       mime_type |-> "image/png"]
        /\ Len(Parts) = 3 <=>
               /\ call.auxiliary_information.type = "str"
               /\ call.auxiliary_information.val # ""
        /\ Len(Parts) = 3 =>
               Parts[3] = [kind |-> "text", text |-> call.auxiliary_information.val]
        /\ \A k \in 1..Len(Parts) :
               Parts[k].kind = "text" => Parts[k].text # THINKING_PROMPT
        /\ request.config.system_instruction = THINKING_PROMPT

\* A request with the auxiliary text, issued after the grid image's upload
\* finished first.
C7_Witness ==
    /\ pc = "inferring"
    /\ done_order = <<2, 1>>
    /\ Len(Parts) = 3

\* A request without auxiliary text although a truthy non-string was passed.
C7_WitnessNonString ==
    /\ pc = "inferring"
    /\ call.auxiliary_information = PyInt("7")
    /\ Len(Parts) = 2

(***************************************************************************)
(* C8. Decoding mode: the call is issued in free-text mode (no JSON mime   *)
(* type, no response schema, result from first-JSON-block extraction)      *)
(* exactly when the effective schema-constraint flag is false or the       *)
(* resolved model is the legacy identifier, and in JSON-mime mode with the *)
(* ChallengeResult schema otherwise.                                       *)
(***************************************************************************)
FreeTextMode ==
    /\ request.config.response_mime_type = ""
    /\ request.config.response_schema = ""

StructuredMode ==
    /\ request.config.response_mime_type = "application/json"
    /\ request.config.response_schema = "ImageAreaSelectChallenge"

C8_DecodingMode ==
    request # NoRequest =>
        LET flag == effective_constraint(call, self0)
            free == \/ flag \in {PyFalse, PyNone}
                    \/ request.model = "gemini-2.0-flash-thinking-exp-01-21"
        IN  /\ request.model = model_to_use(call, self0).val
            /\ free => FreeTextMode
            /\ ~ free => StructuredMode
            /\ pc = "returned" /\ free =>
                   outcome.value = ImageAreaSelectChallenge(
                       extract_first_json_block(self._response.text)).value

\* The legacy model with the schema constraint requested: free-text mode.
C8_Witness ==
    /\ pc = "returned"
    /\ request.model = LegacyModel
    /\ effective_constraint(call, self0) = PyTrue
    /\ FreeTextMode

\* Another model with the schema constraint requested: JSON-mime mode.
C8_WitnessStructured ==
    /\ pc = "returned"
    /\ request.model = FlashModel
    /\ effective_constraint(call, self0) = PyTrue
    /\ StructuredMode

(***************************************************************************)
(* C9. A failure of attempt 1 or 2 is retried whatever failed: a response  *)
(* that cannot be parsed, like a failed upload or a failed inference call, *)
(* leaves the invocation waiting the fixed delay, and what follows is a    *)
(* whole new attempt: both uploads again, then a new inference call and a  *)
(* new parse.                                                              *)
(***************************************************************************)
Malformed(a) == journal[a].exception.type \in {"TypeError", "ValidationError"}

C9_MalformedRetried ==
    \A a \in Attempts :
        (a <= 2 /\ journal[a].exception.type \in
                       {"TypeError", "ValidationError", "UploadError", "APIError"}) =>
            /\ Malformed(a) =>
                   /\ journal[a].uploads_started = 2
                   /\ ~ journal[a].upload_failed
                   /\ journal[a].inference_calls = 1
                   /\ journal[a].response # NoResponse
                   /\ parse(request, journal[a].response).kind = "raise"
            /\ a = Len(journal) =>
                   /\ pc = "sleeping"
                   /\ outcome = NoOutcome
                   /\ slept = 3 * a
            /\ a < Len(journal) =>
                   /\ slept >= 3 * a
                   /\ journal[a + 1].uploads_started = 2
                   /\ pc = "inferring" /\ a + 1 = Len(journal) =>
                          /\ journal[a + 1].inference_calls = 1
                          /\ journal[a + 1].response = NoResponse
                   /\ pc = "returned" /\ a + 1 = Len(journal) =>
                          outcome.value =
                              parse(request, journal[a + 1].response).value

\* Two malformed responses, each followed by a new attempt; the third
\* attempt has re-uploaded and issued its own call.
C9_Witness ==
    /\ Len(journal) = 3
    /\ journal[1].exception.type = "TypeError"
    /\ journal[2].exception.type = "ValidationError"
    /\ pc = "inferring"
    /\ slept = 6
    /\ TotalUploads = 6
    /\ TotalInferenceCalls = 3

LastResponse ==
    LET got == {a \in Attempts : journal[a].response # NoResponse}
    IN  IF got = {} THEN self0._response
        ELSE journal[CHOOSE a \in got : \A b \in got : b <= a].response

EmptyPoints(r) ==
    LET d == extract_first_json_block(r.text)
    IN  r.parsed = NoParsed /\ "points" \in DOMAIN d /\ d.points = <<>>

C11_PointsNonEmpty ==
    /\ pc = "returned" =>
           /\ outcome.kind = "result"
           /\ {"challenge_prompt", "points"} \subseteq DOMAIN outcome.value
           /\ Len(outcome.value.points) >= 1
    /\ \A a \in Attempts :
           EmptyPoints(journal[a].response) =>
               /\ journal[a].exception.type = "ValidationError"
               /\ ~ (pc = "returned" /\ a = Len(journal))

\* An empty points list was refused on attempt 1 and the retry returned points.
C11_Witness ==
    /\ pc = "returned"
    /\ Len(journal) = 2
    /\ EmptyPoints(journal[1].response)
    /\ Len(outcome.value.points) = 1

(***************************************************************************)
(* C12. As claimed: an explicit per-call constraint_response_schema is the *)
(* effective flag even when a different enable_response_schema is passed   *)
(* too, so it alone decides the decoding mode of a non-legacy model.       *)
(***************************************************************************)
C12_PerCallFlagWins ==
    (pc # "idle" /\ call.constraint_response_schema # PyNone) =>
        /\ effective_constraint(call, self0) = call.constraint_response_schema
        /\ (request # NoRequest /\ request.model # LegacyModel) =>
               (StructuredMode <=> call.constraint_response_schema = PyTrue)

EnableGiven == "enable_response_schema" \in DOMAIN call.kwargs

\* enable_response_schema when passed, else the per-call flag when passed,
\* else the constructor's default.
ExpectedFlag ==
    IF EnableGiven /\ call.kwargs["enable_response_schema"] # PyNone
    THEN call.kwargs["enable_response_schema"]
    ELSE IF call.constraint_response_schema # PyNone
         THEN call.constraint_response_schema
         ELSE self0._constraint_response_schema

(***************************************************************************)
(* C12, amended. The effective flag is enable_response_schema when the     *)
(* caller passes one, else the explicit per-call                           *)
(* constraint_response_schema, else the constructor default; the default   *)
(* is used only when the call gives neither. The decoding mode of a        *)
(* non-legacy model follows that flag.                                     *)
(***************************************************************************)
C12_Precedence ==
    pc # "idle" =>
        /\ effective_constraint(call, self0) = ExpectedFlag
        /\ (request # NoRequest /\ request.model # LegacyModel) =>
               /\ StructuredMode <=> ExpectedFlag = PyTrue
               /\ FreeTextMode <=> ExpectedFlag # PyTrue

\* The per-call flag says no, enable_response_schema says yes, and the call
\* is issued in JSON-mime mode.
C12_Witness ==
    /\ pc = "inferring"
    /\ call.constraint_response_schema = PyFalse
    /\ EnableGiven
    /\ call.kwargs["enable_response_schema"] = PyTrue
    /\ request.model = FlashModel
    /\ StructuredMode

(***************************************************************************)
(* C13. Per-attempt side effects: every attempt that passes the model      *)
(* check starts two uploads, a retried attempt too; every attempt issues   *)
(* at most one inference call, and exactly one once gather has returned    *)
(* both uploads, whatever the decoding mode does with the response. Over   *)
(* an invocation: uploads = 2 x attempts past the model check <= 6, and    *)
(* inference calls <= attempts <= 3.                                       *)
(***************************************************************************)
PastModelCheck(a) == journal[a].exception.type # "ValueError"

\* Attempt a got past its await of gather.
PastGather(a) ==
    \/ journal[a].exception.type \in {"APIError", "TypeError", "ValidationError"}
    \/ a = Len(journal) /\ pc \in {"inferring", "returned"}

C13_SideEffects ==
    /\ \A a \in Attempts :
           /\ journal[a].uploads_started = IF PastModelCheck(a) THEN 2 ELSE 0
           /\ PastModelCheck(a) <=> model_to_use(call, self0) # PyNone
           /\ journal[a].inference_calls \in {0, 1}
           /\ journal[a].inference_calls = 1 <=> PastGather(a)
           /\ PastGather(a) => ~ journal[a].upload_failed
           /\ journal[a].response # NoResponse => journal[a].inference_calls = 1
    /\ TotalUploads = 2 * Cardinality({a \in Attempts : PastModelCheck(a)})
    /\ TotalUploads <= 6
    /\ TotalInferenceCalls <= Len(journal)
    /\ Len(journal) <= 3

\* The third attempt re-uploaded, issued one call in JSON-mime mode and
\* returned through the fallback to the text of the response.
C13_Witness ==
    /\ pc = "returned"
    /\ Len(journal) = 3
    /\ TotalUploads = 6
    /\ TotalInferenceCalls = 3
    /\ StructuredMode
    /\ journal[3].response.parsed = NoParsed
    /\ journal[3].inference_calls = 1

(***************************************************************************)
(* C15. Structured-mode result selection: in JSON-mime mode a response     *)
(* that carries a parsed object gives the result built from that object,   *)
(* whatever its text says; without a parsed object the result is built     *)
(* from the first JSON block of the text of the same response, and the     *)
(* attempt fails when there is no such block or it does not validate.      *)
(***************************************************************************)
AsResult(d) == [challenge_prompt |-> d.challenge_prompt, points |-> d.points]

ReturnedBy(a) == a = Len(journal) /\ pc = "returned"

C15_StructuredSelection ==
    (request # NoRequest /\ StructuredMode) =>
        \A a \in Attempts :
            LET r == journal[a].response
                d == extract_first_json_block(r.text)
            IN  r # NoResponse =>
                    /\ r.parsed # NoParsed =>
                           /\ ReturnedBy(a)
                           /\ outcome.value = AsResult(r.parsed)
                    /\ (r.parsed = NoParsed /\ d = NoJson) =>
                           journal[a].exception.type = "TypeError"
                    /\ (r.parsed = NoParsed /\ d \in {BadShape, PayloadEmpty}) =>
                           journal[a].exception.type = "ValidationError"
                    /\ (r.parsed = NoParsed /\ d \in {PayloadA, PayloadB}) =>
                           /\ ReturnedBy(a)
                           /\ outcome.value = AsResult(d)

\* The parsed object and the text disagree: the result is the parsed object.
C15_Witness ==
    /\ pc = "returned"
    /\ StructuredMode
    /\ journal[Len(journal)].response.parsed = PayloadA
    /\ extract_first_json_block(journal[Len(journal)].response.text) = PayloadB
    /\ outcome.value = AsResult(PayloadA)

\* No parsed object: the result is the first of the two blocks of the text.
C15_WitnessFallback ==
    /\ pc = "returned"
    /\ StructuredMode
    /\ journal[Len(journal)].response.parsed = NoParsed
    /\ outcome.value = AsResult(PayloadB)

(***************************************************************************)
(* C17. Deliberation settings are attached to the configuration exactly    *)
(* when the resolved model is a thinking-budget model and an integer       *)
(* thinking budget was passed; attached, they enable the reasoning trace   *)
(* and carry the budget passed; the temperature is always 0.               *)
(***************************************************************************)
BudgetGiven ==
    /\ "thinking_budget" \in DOMAIN call.kwargs
    /\ call.kwargs["thinking_budget"].type = "int"

C17_ThinkingConfig ==
    request # NoRequest =>
        /\ request.config.temperature = 0
        /\ request.config.thinking_config # NoThinking <=>
               (request.model \in THINKING_BUDGET_MODELS /\ BudgetGiven)
        /\ request.config.thinking_config # NoThinking =>
               /\ request.config.thinking_config.include_thoughts
               /\ request.config.thinking_config.thinking_budget =
                      call.kwargs["thinking_budget"]

\* A budget on a thinking-budget model: attached.
C17_Witness ==
    /\ pc = "inferring"
    /\ request.model = FlashModel
    /\ request.config.thinking_config =
           [include_thoughts |-> TRUE, thinking_budget |-> PyInt("1024")]

\* The same budget on another model: not attached.
C17_WitnessOtherModel ==
    /\ pc = "inferring"
    /\ request.model = LegacyModel
    /\ BudgetGiven
    /\ request.config.thinking_config = NoThinking

(***************************************************************************)
(* C14. With two invocations running concurrently on one solver, each      *)
(* invocation that returns returns the result parsed from the response of  *)
(* its own inference call, under every interleaving of their suspension    *)
(* points, although both store their response in self._response.           *)
(***************************************************************************)
C14_OwnResponse ==
    /\ pc = "returned" =>
           LET res == parse(request, journal[Len(journal)].response)
           IN  /\ journal[Len(journal)].response # NoResponse
               /\ res.kind = "return"
               /\ outcome.value = res.value
    /\ peer.pc = "returned" =>
           LET res == parse(peer.request, peer.response)
           IN  /\ peer.response # NoResponse
               /\ res.kind = "return"
               /\ peer.outcome.value = res.value

\* Both returned, with different results; the solver holds the peer's
\* response, which is not the one the first invocation's result came from.
C14_Witness ==
    /\ pc = "returned"
    /\ peer.pc = "returned"
    /\ outcome.value # peer.outcome.value
    /\ self._response = peer.response
    /\ self._response # journal[Len(journal)].response

(***************************************************************************)
(* C16. Termination: when every upload and every inference call            *)
(* completes, an invocation that has begun ends, by returning or by        *)
(* raising, and on the way it makes at most 3 attempts and waits at most   *)
(* twice.                                                                  *)
(***************************************************************************)
C16_Termination ==
    /\ [](/\ attempt_number <= 3
          /\ Len(journal) <= 3
          /\ slept \in {0, WaitSeconds, 2 * WaitSeconds})
    /\ (pc # "idle") ~> Ended

\* An invocation has ended after three attempts and two waits.
C16_Witness ==
    /\ Ended
    /\ attempt_number = 3
    /\ slept = 2 * WaitSeconds

====
